---- MODULE Spec2Model ----
(***************************************************************************)
(* Model of nvml/datadog_checks/nvml/nvml.py: the NVML check (sampler),    *)
(* its per-probe wrapper NvmlCall, the scoped NvmlInit, and the daemon     *)
(* thread that refreshes the GPU -> kubernetes tag mapping.                *)
(***************************************************************************)
EXTENDS Integers, Sequences, FiniteSets, TLC

(* ------------------------------ bounds --------------------------------- *)

MaxChecks == 2      \* check() invocations begun in one behaviour
MaxDevices == 2     \* devices the binding reports
MaxFaults == 1      \* binding functions that are broken on this host
NumSamplers == 2    \* caller contexts that may invoke check()

(* ------------------------------ data ----------------------------------- *)

Samplers == 1..NumSamplers
Threads == 1..NumSamplers

NoThread == 0
NoOne == <<"none", 0>>
SamplerId(s) == <<"sampler", s>>
ThreadId(p) == <<"thread", p>>

\* str(i) for the device indices of the model
IndexStr(i) == IF i = 0 THEN "0" ELSE IF i = 1 THEN "1" ELSE IF i = 2 THEN "2" ELSE "3"

\* the UUID of the device at index i, as the binding names it
UuidName(i) == IF i = 0 THEN "a" ELSE IF i = 1 THEN "b" ELSE IF i = 2 THEN "c" ELSE "d"
UuidNames == {UuidName(i) : i \in 0..3}

\* A device identity in one of its two encodings
Bytes(u) == [form |-> "bytes", id |-> u]
Str(u) == [form |-> "str", id |-> u]
Identities == {Bytes(u) : u \in UuidNames} \cup {Str(u) : u \in UuidNames}

\* bytes.decode("utf-8"); a str has no decode attribute
HasDecode(device_id) == device_id.form = "bytes"
Decode(device_id) == Str(device_id.id)

\* dict.get(key, default) on a mapping modelled as a function
DictGet(d, key, default) == IF key \in DOMAIN d THEN d[key] ELSE default

\* d[key] = value on a dict
DictPut(d, key, value) ==
  [k \in DOMAIN d \cup {key} |-> IF k = key THEN value ELSE d[k]]

EmptyDict == [k \in {} |-> <<>>]

(* ------------------- resource-assignment service ----------------------- *)

\* "<prefix>:" + value
Label(prefix, value) == <<prefix, value>>

GpuResource == "nvidia.com/gpu"

Device(resource_name, device_ids) ==
  [resource_name |-> resource_name, device_ids |-> device_ids]
Container(name, devices) == [name |-> name, devices |-> devices]
PodResources(name, namespace, containers) ==
  [name |-> name, namespace |-> namespace, containers |-> containers]

\* Snapshots the List call can answer with
SnapEmpty == [pod_resources |-> <<>>]
SnapOne ==
  [pod_resources |->
     << PodResources("p1", "ns1", << Container("c1", << Device(GpuResource, << "a" >>) >>) >>) >>]
SnapTwo ==
  [pod_resources |->
     << PodResources("p1", "ns1",
          << Container("c1", << Device(GpuResource, << "a" >>),
                                Device("example.com/nic", << "b", "c" >>) >>) >>),
        PodResources("p2", "ns2",
          << Container("c2", << Device(GpuResource, << "a", "b" >>) >>) >>) >>]
ListResponses == {SnapEmpty, SnapOne, SnapTwo}

RECURSIVE Concat(_)
Concat(seqs) == IF seqs = <<>> THEN <<>> ELSE Head(seqs) \o Concat(Tail(seqs))

\* Variant: the test of device.resource_name (lines 176-177) is missing
DeviceAssignmentsAnyClass(pod_res, container, device) ==
  [j \in 1..Len(device.device_ids) |->
     [device_id |-> Str(device.device_ids[j]),
      tags |-> << Label("pod_name", pod_res.name),
                  Label("kube_namespace", pod_res.namespace),
                  Label("kube_container_name", container.name) >>]]

\* The assignments new_tags[device_id] = [...] that the loops of refresh_tags
\* execute for one device entry, in order
DeviceAssignments(pod_res, container, device) ==
  IF device.resource_name # GpuResource
    THEN <<>>
    ELSE [j \in 1..Len(device.device_ids) |->
            [device_id |-> Str(device.device_ids[j]),
             tags |-> << Label("pod_name", pod_res.name),
                         Label("kube_namespace", pod_res.namespace),
                         Label("kube_container_name", container.name) >>]]

ContainerAssignments(pod_res, container) ==
  Concat([k \in 1..Len(container.devices) |->
            DeviceAssignments(pod_res, container, container.devices[k])])

PodAssignments(pod_res) ==
  Concat([k \in 1..Len(pod_res.containers) |->
            ContainerAssignments(pod_res, pod_res.containers[k])])

Assignments(resp) ==
  Concat([k \in 1..Len(resp.pod_resources) |-> PodAssignments(resp.pod_resources[k])])

\* new_tags after executing the assignments in order, starting from d
RECURSIVE ApplyAssignments(_, _)
ApplyAssignments(d, as) ==
  IF as = <<>> THEN d
  ELSE ApplyAssignments(DictPut(d, Head(as).device_id, Head(as).tags), Tail(as))

\* The mapping one complete build produces from a snapshot
BuildTags(resp) == ApplyAssignments(EmptyDict, Assignments(resp))

(* --------------------------- telemetry binding ------------------------- *)

NvmlCalls ==
  {"nvmlInit", "nvmlDeviceGetCount", "nvmlDeviceGetHandleByIndex", "nvmlDeviceGetUUID",
   "nvmlDeviceGetUtilizationRates", "nvmlDeviceGetMemoryInfo", "nvmlDeviceGetPowerUsage",
   "nvmlDeviceGetTotalEnergyConsumption", "nvmlDeviceGetEncoderUtilization",
   "nvmlDeviceGetDecoderUtilization", "nvmlDeviceGetPcieThroughput"}

\* What a call of the binding does: return, raise pynvml.NVMLError, or raise
\* an error of another type
Outcomes == {"ok", "NVMLError", "RuntimeError"}

\* Hosts: which functions are broken, and how
FaultConfigs ==
  {f \in [NvmlCalls -> Outcomes] : Cardinality({c \in NvmlCalls : f[c] # "ok"}) <= MaxFaults}

\* A healthy host: every function of the binding returns
NoFaults == [c \in NvmlCalls |-> "ok"]

Metric(name, mtype) == [name |-> name, mtype |-> mtype]

\* The with NvmlCall(...) blocks of gather_gpu, in order
Probes ==
  << [name |-> "util_rate", call |-> "nvmlDeviceGetUtilizationRates",
      metrics |-> {Metric("gpu_utilization", "gauge"), Metric("mem_copy_utilization", "gauge")}],
     [name |-> "mem_info", call |-> "nvmlDeviceGetMemoryInfo",
      metrics |-> {Metric("fb_free", "gauge"), Metric("fb_used", "gauge"),
                   Metric("fb_total", "gauge")}],
     [name |-> "power", call |-> "nvmlDeviceGetPowerUsage",
      metrics |-> {Metric("power_usage", "gauge")}],
     [name |-> "total_energy_consumption", call |-> "nvmlDeviceGetTotalEnergyConsumption",
      metrics |-> {Metric("total_energy_consumption", "monotonic_count")}],
     [name |-> "enc_utilization", call |-> "nvmlDeviceGetEncoderUtilization",
      metrics |-> {Metric("enc_utilization", "gauge")}],
     [name |-> "dec_utilization", call |-> "nvmlDeviceGetDecoderUtilization",
      metrics |-> {Metric("dec_utilization", "gauge")}],
     [name |-> "pci_through", call |-> "nvmlDeviceGetPcieThroughput",
      metrics |-> {Metric("pcie_tx_throughput", "monotonic_count"),
                   Metric("pcie_rx_throughput", "monotonic_count")}] >>

ProbeKinds == {"device_count"} \cup {Probes[k].name : k \in 1..Len(Probes)}

\* One submitted observation
Sample(metric, value, tags) ==
  [name |-> metric.name, mtype |-> metric.mtype, value |-> value, tags |-> tags]

(* ------------------------------ NvmlCall -------------------------------- *)

\* class NvmlCall(object) defines name and previously_printed_errors, and no
\* attribute log: evaluating self.log raises AttributeError
NvmlCallHasLog == FALSE

\* Variant: the test of the exception's type (lines 54-55) is missing
NvmlCallExitAnyError(name, exception_type, printed) ==
  IF exception_type = "none"
    THEN [suppress |-> FALSE, printed |-> printed, warned |-> FALSE, raised |-> "none"]
  ELSE IF name \in printed
    THEN [suppress |-> TRUE, printed |-> printed, warned |-> FALSE, raised |-> "none"]
    ELSE [suppress |-> FALSE, printed |-> printed \cup {name}, warned |-> FALSE,
          raised |-> "AttributeError"]

\* NvmlCall(name).__exit__ for a block that ended with exception_type ("none"
\* when the block returned), given the class-level set previously_printed_errors.
\*   suppress: the value __exit__ returns; raised: the error __exit__ itself raises;
\*   warned: whether log.warning was called
NvmlCallExit(name, exception_type, printed) ==
  IF exception_type = "none"
    THEN [suppress |-> FALSE, printed |-> printed, warned |-> FALSE, raised |-> "none"]
  ELSE IF exception_type # "NVMLError"
    THEN [suppress |-> FALSE, printed |-> printed, warned |-> FALSE, raised |-> "none"]
  ELSE IF name \in printed
    THEN [suppress |-> TRUE, printed |-> printed, warned |-> FALSE, raised |-> "none"]
  ELSE IF NvmlCallHasLog
    THEN [suppress |-> TRUE, printed |-> printed \cup {name}, warned |-> TRUE,
          raised |-> "none"]
    ELSE [suppress |-> FALSE, printed |-> printed \cup {name}, warned |-> FALSE,
          raised |-> "AttributeError"]

\* The exception in flight after the with statement, once __exit__ has run
AfterExit(exception_type, r) ==
  IF r.raised # "none" THEN r.raised
  ELSE IF r.suppress THEN "none"
  ELSE exception_type

\* One more warning naming probe-kind name
Warned(w, name, r) == IF r.warned THEN [w EXCEPT ![name] = @ + 1] ELSE w

\* gather_gpu(handle, tags) from its k-th block on, on a host with faults f.
\* st carries what the call has done so far: the samples submitted, the set
\* previously_printed_errors, the warnings logged, the probe-kinds whose query
\* raised NVMLError, the first error of another type a query raised, and the
\* exception in flight.
RECURSIVE GatherGpuFrom(_, _, _, _, _)
GatherGpuFrom(k, f, handle, tags, st) ==
  IF k > Len(Probes) \/ st.exc # "none" THEN st
  ELSE
    LET probe == Probes[k]
        raised == IF f[probe.call] = "ok" THEN "none" ELSE f[probe.call]
        r == NvmlCallExit(probe.name, raised, st.printed)
    IN GatherGpuFrom(k + 1, f, handle, tags,
         [emitted |-> IF raised = "none"
                        THEN st.emitted \cup {Sample(m, handle, tags) : m \in probe.metrics}
                        ELSE st.emitted,
          printed |-> r.printed,
          warnings |-> Warned(st.warnings, probe.name, r),
          failed |-> IF raised = "NVMLError" THEN st.failed \cup {probe.name} ELSE st.failed,
          other |-> IF raised \notin {"none", "NVMLError"} /\ st.other = "none"
                      THEN raised ELSE st.other,
          exc |-> AfterExit(raised, r)])

gather_gpu(f, handle, tags, st) == GatherGpuFrom(1, f, handle, tags, st)

(* ------------------------------- state ---------------------------------- *)

VARIABLES
  framework,                  \* how the check is driven: "serial" or "concurrent" check() calls,
                              \* "direct" calls of get_tags, or "mixed": serial check() calls
                              \* beside another caller of get_tags
  nvmlFault,                  \* the host: outcome of each function of the binding
  deviceCount,                \* the host: what nvmlDeviceGetCount returns
  socketExists,               \* os.path.exists(SOCKET_PATH)
  service,                    \* the node: the snapshots the kubelet may answer List with
  known_tags,                 \* NvmlCheck.known_tags
  lock,                       \* NvmlCheck.lock: its holder, or NoOne
  thread,                     \* self._thread: NoThread (None) or the thread it refers to
  previously_printed_errors,  \* NvmlCall.previously_printed_errors
  inits, shutdowns,           \* successful nvmlInit calls, nvmlShutdown calls
  infoNoSocket, infoMonitoring, \* log.info lines of _start_discovery
  warnings,                   \* log.warning lines of NvmlCall, per probe-kind
  checks,                     \* check() invocations begun
  pc, i, device_id, tags, exc, emitted, result,   \* per caller: the invocation in progress
  ppc, response, todo, new_tags, pollerLog,       \* per thread: discover_instances
  gtSeen,                     \* history: mappings that were current during a caller's get_tags
  failedKinds,                \* history: probe-kinds whose block saw an NVMLError
  probeExc,                   \* history: first error of another type a query raised in this pass
  lookedUp,                   \* history: per caller, the known_tags each get_tags of this pass read
  published                   \* history: the mapping installed by the last completed swap

envVars == <<framework, nvmlFault, deviceCount, socketExists, service>>
sharedVars == <<known_tags, lock, thread, previously_printed_errors, inits, shutdowns,
                infoNoSocket, infoMonitoring, warnings, checks>>
samplerVars == <<pc, i, device_id, tags, exc, emitted, result>>
pollerVars == <<ppc, response, todo, new_tags, pollerLog>>
historyVars == <<gtSeen, failedKinds, probeExc, lookedUp, published>>
vars == <<envVars, sharedVars, samplerVars, pollerVars, historyVars>>

NoId == [form |-> "none", id |-> ""]

\* Device counts a host may report
DeviceCounts == {0, MaxDevices}

\* The class attributes and every caller and thread before the first call;
\* known is the content of known_tags
InitProgram(known) ==
  /\ known_tags = known
  /\ published = known
  /\ lock = NoOne
  /\ thread = NoThread
  /\ previously_printed_errors = {}
  /\ inits = 0 /\ shutdowns = 0
  /\ infoNoSocket = 0 /\ infoMonitoring = 0
  /\ warnings = [k \in ProbeKinds |-> 0]
  /\ checks = 0
  /\ pc = [s \in Samplers |-> "idle"]
  /\ i = [s \in Samplers |-> 0]
  /\ device_id = [s \in Samplers |-> NoId]
  /\ tags = [s \in Samplers |-> <<>>]
  /\ exc = [s \in Samplers |-> "none"]
  /\ emitted = [s \in Samplers |-> {}]
  /\ result = [s \in Samplers |-> "none"]
  /\ ppc = [p \in Threads |-> "unstarted"]
  /\ response = [p \in Threads |-> SnapEmpty]
  /\ todo = [p \in Threads |-> <<>>]
  /\ new_tags = [p \in Threads |-> EmptyDict]
  /\ pollerLog = [p \in Threads |-> <<>>]
  /\ gtSeen = [s \in Samplers |-> {}]
  /\ failedKinds = {}
  /\ probeExc = [s \in Samplers |-> "none"]
  /\ lookedUp = [s \in Samplers |-> <<>>]

\* The agent runs the checks of one instance one after the other. A healthy
\* host, on a node whose kubelet may answer with any of the snapshots
Init ==
  /\ framework = "serial"
  /\ nvmlFault = NoFaults
  /\ deviceCount \in DeviceCounts
  /\ socketExists \in BOOLEAN
  /\ service = ListResponses
  /\ InitProgram(EmptyDict)

\* The same, on any host, on a node with one device assigned to one pod
InitFaults ==
  /\ framework = "serial"
  /\ nvmlFault \in FaultConfigs
  /\ deviceCount \in DeviceCounts
  /\ socketExists \in BOOLEAN
  /\ service = {SnapOne}
  /\ InitProgram(EmptyDict)

(* --------------------------- check: the sampler ------------------------- *)

\* Caller s calls get_tags itself rather than check()
IsDirect(s) == framework = "direct" \/ (framework = "mixed" /\ s = 2)

\* check(): entry, and the test self._thread is None
CheckBegin(s) ==
  /\ ~IsDirect(s)
  /\ framework \in {"serial", "mixed"} => s = 1
  /\ pc[s] = "idle"
  /\ checks < MaxChecks
  /\ checks' = checks + 1
  /\ pc' = [pc EXCEPT ![s] = IF thread = NoThread THEN "start_discovery" ELSE "init"]
  /\ UNCHANGED <<envVars, known_tags, lock, thread, previously_printed_errors, inits,
                 shutdowns, infoNoSocket, infoMonitoring, warnings,
                 i, device_id, tags, exc, emitted, result, pollerVars, historyVars>>

\* _start_discovery(): the test of the socket path and the info line
StartDiscovery(s) ==
  /\ pc[s] = "start_discovery"
  /\ IF socketExists
       THEN /\ infoMonitoring' = infoMonitoring + 1
            /\ pc' = [pc EXCEPT ![s] = "start_thread"]
            /\ UNCHANGED infoNoSocket
       ELSE /\ infoNoSocket' = infoNoSocket + 1
            /\ pc' = [pc EXCEPT ![s] = "init"]
            /\ UNCHANGED infoMonitoring
  /\ UNCHANGED <<envVars, known_tags, lock, thread, previously_printed_errors, inits,
                 shutdowns, warnings, checks,
                 i, device_id, tags, exc, emitted, result, pollerVars, historyVars>>

\* The thread a Thread(...) call creates: the first one not yet created
NewThread == CHOOSE p \in Threads : ppc[p] = "unstarted" /\ \A q \in Threads : q < p => ppc[q] # "unstarted"

\* _start_discovery(): self._thread = Thread(...); self._thread.start()
StartThread(s) ==
  /\ pc[s] = "start_thread"
  /\ thread' = NewThread
  /\ ppc' = [ppc EXCEPT ![NewThread] = "refresh"]
  /\ pc' = [pc EXCEPT ![s] = "init"]
  /\ UNCHANGED <<envVars, known_tags, lock, previously_printed_errors, inits, shutdowns,
                 infoNoSocket, infoMonitoring, warnings, checks,
                 i, device_id, tags, exc, emitted, result,
                 response, todo, new_tags, pollerLog, historyVars>>

\* NvmlInit.__enter__: nvmlInit() returns or raises; when it raises the with
\* body and __exit__ are skipped and check() raises
NvmlInitEnter(s) ==
  /\ pc[s] = "init"
  /\ IF nvmlFault["nvmlInit"] = "ok"
       THEN /\ inits' = inits + 1
            /\ pc' = [pc EXCEPT ![s] = "gather"]
            /\ UNCHANGED result
       ELSE /\ result' = [result EXCEPT ![s] = nvmlFault["nvmlInit"]]
            /\ pc' = [pc EXCEPT ![s] = "done"]
            /\ UNCHANGED inits
  /\ UNCHANGED <<envVars, known_tags, lock, thread, previously_printed_errors,
                 shutdowns, infoNoSocket, infoMonitoring, warnings, checks,
                 i, device_id, tags, exc, emitted, pollerVars, historyVars>>

\* History of an error raised directly in the device_count block
RaisedInDeviceCount(s, raised) ==
  /\ failedKinds' = IF raised = "NVMLError" THEN failedKinds \cup {"device_count"}
                    ELSE failedKinds
  /\ probeExc' = IF raised \notin {"none", "NVMLError"} /\ probeExc[s] = "none"
                   THEN [probeExc EXCEPT ![s] = raised] ELSE probeExc

\* gather(): nvmlDeviceGetCount() and the device_count gauge
GatherBegin(s) ==
  /\ pc[s] = "gather"
  /\ LET o == nvmlFault["nvmlDeviceGetCount"]
         raised == IF o = "ok" THEN "none" ELSE o
     IN /\ exc' = [exc EXCEPT ![s] = raised]
        /\ emitted' = [emitted EXCEPT ![s] =
                         IF raised = "none"
                           THEN {Sample(Metric("device_count", "gauge"), deviceCount, <<>>)}
                           ELSE {}]
        /\ pc' = [pc EXCEPT ![s] =
                    IF raised = "none" /\ deviceCount > 0 THEN "device" ELSE "exit"]
        /\ RaisedInDeviceCount(s, raised)
  /\ i' = [i EXCEPT ![s] = 0]
  /\ UNCHANGED <<envVars, sharedVars, device_id, tags, result, pollerVars,
                 gtSeen, lookedUp, published>>

\* gather(), loop body: handle, uuid, tags = ["gpu:" + str(i)], and the call
\* of get_tags(uuid); the binding returns the UUID as bytes
GatherDevice(s) ==
  /\ pc[s] = "device"
  /\ LET o1 == nvmlFault["nvmlDeviceGetHandleByIndex"]
         o2 == nvmlFault["nvmlDeviceGetUUID"]
         raised == IF o1 # "ok" THEN o1 ELSE IF o2 # "ok" THEN o2 ELSE "none"
     IN /\ exc' = [exc EXCEPT ![s] = raised]
        /\ RaisedInDeviceCount(s, raised)
        /\ IF raised = "none"
             THEN /\ device_id' = [device_id EXCEPT ![s] = Bytes(UuidName(i[s]))]
                  /\ tags' = [tags EXCEPT ![s] = << Label("gpu", IndexStr(i[s])) >>]
                  /\ gtSeen' = [gtSeen EXCEPT ![s] = {known_tags}]
                  /\ pc' = [pc EXCEPT ![s] = "get_tags"]
             ELSE /\ pc' = [pc EXCEPT ![s] = "exit"]
                  /\ UNCHANGED <<device_id, tags, gtSeen>>
  /\ UNCHANGED <<envVars, sharedVars, i, emitted, result, pollerVars, lookedUp, published>>

(* ------------------------------ get_tags -------------------------------- *)

\* Variant: a single get with the identity as passed, no second get with the
\* decoded identity
GetTagsValueNoFallback(outer, inner, id) ==
  IF ~HasDecode(id)
    THEN [raised |-> "AttributeError", value |-> <<>>]
    ELSE [raised |-> "none", value |-> DictGet(outer, id, <<>>)]

\* The expression of get_tags: the default argument
\* self.known_tags.get(device_id.decode("utf-8"), []) is evaluated before the
\* outer get is called; outer and inner are the two reads of self.known_tags
GetTagsValue(outer, inner, id) ==
  IF ~HasDecode(id)
    THEN [raised |-> "AttributeError", value |-> <<>>]
    ELSE [raised |-> "none", value |-> DictGet(outer, id, DictGet(inner, Decode(id), <<>>))]

\* get_tags(): with self.lock, entry
GetTagsAcquire(s) ==
  /\ pc[s] = "get_tags"
  /\ lock = NoOne
  /\ lock' = SamplerId(s)
  /\ pc' = [pc EXCEPT ![s] = "lookup"]
  /\ UNCHANGED <<envVars, known_tags, thread, previously_printed_errors, inits, shutdowns,
                 infoNoSocket, infoMonitoring, warnings, checks,
                 i, device_id, tags, exc, emitted, result, pollerVars, historyVars>>

\* Variant: gather() extends the list get_tags returned, which is the list
\* stored in known_tags, instead of its own list
GetTagsLookupAliased(s) ==
  /\ pc[s] = "lookup"
  /\ lock' = NoOne
  /\ LET r == GetTagsValue(known_tags, known_tags, device_id[s])
         key == Decode(device_id[s])
     IN /\ tags' = [tags EXCEPT ![s] = IF r.raised = "none" THEN @ \o r.value ELSE @]
        /\ known_tags' = IF r.raised = "none" /\ key \in DOMAIN known_tags
                           THEN [known_tags EXCEPT ![key] = tags[s] \o @]
                           ELSE known_tags
        /\ IF IsDirect(s)
             THEN /\ result' = [result EXCEPT ![s] = IF r.raised = "none" THEN "ok" ELSE r.raised]
                  /\ pc' = [pc EXCEPT ![s] = "done"]
                  /\ UNCHANGED <<exc, lookedUp>>
             ELSE /\ exc' = [exc EXCEPT ![s] = r.raised]
                  /\ pc' = [pc EXCEPT ![s] = IF r.raised = "none" THEN "gather_gpu" ELSE "exit"]
                  /\ lookedUp' = [lookedUp EXCEPT ![s] = Append(@, known_tags)]
                  /\ UNCHANGED result
  /\ UNCHANGED <<envVars, thread, previously_printed_errors, inits, shutdowns,
                 infoNoSocket, infoMonitoring, warnings, checks,
                 i, device_id, emitted, pollerVars, gtSeen, failedKinds, probeExc, published>>

\* Variant: the lock is released by a statement after the lookup, which a
\* lookup that raises never reaches
GetTagsLookupLeaks(s) ==
  /\ pc[s] = "lookup"
  /\ LET r == GetTagsValue(known_tags, known_tags, device_id[s])
     IN /\ lock' = IF r.raised = "none" THEN NoOne ELSE lock
        /\ tags' = [tags EXCEPT ![s] = IF r.raised = "none" THEN @ \o r.value ELSE @]
        /\ IF IsDirect(s)
             THEN /\ result' = [result EXCEPT ![s] = IF r.raised = "none" THEN "ok" ELSE r.raised]
                  /\ pc' = [pc EXCEPT ![s] = "done"]
                  /\ UNCHANGED <<exc, lookedUp>>
             ELSE /\ exc' = [exc EXCEPT ![s] = r.raised]
                  /\ pc' = [pc EXCEPT ![s] = IF r.raised = "none" THEN "gather_gpu" ELSE "exit"]
                  /\ lookedUp' = [lookedUp EXCEPT ![s] = Append(@, known_tags)]
                  /\ UNCHANGED result
  /\ UNCHANGED <<envVars, known_tags, thread, previously_printed_errors, inits, shutdowns,
                 infoNoSocket, infoMonitoring, warnings, checks,
                 i, device_id, emitted, pollerVars, gtSeen, failedKinds, probeExc, published>>

\* get_tags(): the lookup, the release of the lock on the way out, and in
\* gather() tags += <the value returned>
GetTagsLookup(s) ==
  /\ pc[s] = "lookup"
  /\ lock' = NoOne
  /\ LET r == GetTagsValue(known_tags, known_tags, device_id[s])
     IN /\ tags' = [tags EXCEPT ![s] = IF r.raised = "none" THEN @ \o r.value ELSE @]
        /\ IF IsDirect(s)
             THEN /\ result' = [result EXCEPT ![s] = IF r.raised = "none" THEN "ok" ELSE r.raised]
                  /\ pc' = [pc EXCEPT ![s] = "done"]
                  /\ UNCHANGED <<exc, lookedUp>>
             ELSE /\ exc' = [exc EXCEPT ![s] = r.raised]
                  /\ pc' = [pc EXCEPT ![s] = IF r.raised = "none" THEN "gather_gpu" ELSE "exit"]
                  /\ lookedUp' = [lookedUp EXCEPT ![s] = Append(@, known_tags)]
                  /\ UNCHANGED result
  /\ UNCHANGED <<envVars, known_tags, thread, previously_printed_errors, inits, shutdowns,
                 infoNoSocket, infoMonitoring, warnings, checks,
                 i, device_id, emitted, pollerVars, gtSeen, failedKinds, probeExc, published>>

\* A caller other than gather() calls get_tags(id)
DirectGetTags(s, id) ==
  /\ IsDirect(s)
  /\ pc[s] = "idle"
  /\ device_id' = [device_id EXCEPT ![s] = id]
  /\ gtSeen' = [gtSeen EXCEPT ![s] = {known_tags}]
  /\ pc' = [pc EXCEPT ![s] = "get_tags"]
  /\ UNCHANGED <<envVars, sharedVars, i, tags, exc, emitted, result, pollerVars,
                 failedKinds, probeExc, lookedUp, published>>

(* ------------------------- gather, continued ---------------------------- *)

\* gather(): self.gather_gpu(handle, tags), then the next device or the end
\* of the loop
GatherGpu(s) ==
  /\ pc[s] = "gather_gpu"
  /\ LET st == gather_gpu(nvmlFault, i[s], tags[s],
                 [emitted |-> emitted[s], printed |-> previously_printed_errors,
                  warnings |-> warnings, failed |-> failedKinds,
                  other |-> probeExc[s], exc |-> "none"])
     IN /\ emitted' = [emitted EXCEPT ![s] = st.emitted]
        /\ previously_printed_errors' = st.printed
        /\ warnings' = st.warnings
        /\ failedKinds' = st.failed
        /\ probeExc' = [probeExc EXCEPT ![s] = st.other]
        /\ gtSeen' = [gtSeen EXCEPT ![s] = {}]
        /\ exc' = [exc EXCEPT ![s] = st.exc]
        /\ IF st.exc = "none" /\ i[s] + 1 < deviceCount
             THEN /\ i' = [i EXCEPT ![s] = @ + 1]
                  /\ pc' = [pc EXCEPT ![s] = "device"]
             ELSE /\ pc' = [pc EXCEPT ![s] = "exit"]
                  /\ UNCHANGED i
  /\ UNCHANGED <<envVars, known_tags, lock, thread, inits, shutdowns,
                 infoNoSocket, infoMonitoring, checks,
                 device_id, tags, result, pollerVars, lookedUp, published>>

\* gather(): NvmlCall("device_count").__exit__
GatherExit(s) ==
  /\ pc[s] = "exit"
  /\ LET r == NvmlCallExit("device_count", exc[s], previously_printed_errors)
     IN /\ previously_printed_errors' = r.printed
        /\ warnings' = Warned(warnings, "device_count", r)
        /\ exc' = [exc EXCEPT ![s] = AfterExit(exc[s], r)]
  /\ pc' = [pc EXCEPT ![s] = "shutdown"]
  /\ UNCHANGED <<envVars, known_tags, lock, thread, inits, shutdowns,
                 infoNoSocket, infoMonitoring, checks,
                 i, device_id, tags, emitted, result, pollerVars, historyVars>>

\* What check() does once NvmlInit.__exit__ has run, with exception e in flight
\* ("none": gather returned): __exit__ returns None, so e goes on to the caller
CheckOutcome(e) == IF e = "none" THEN "ok" ELSE e

\* Variant: nvmlShutdown() only after a body that returned
ShutsDownOnSuccess(e) == e = "none"

\* Whether NvmlInit.__exit__ runs nvmlShutdown() with exception e in flight
ShutsDown(e) == TRUE

\* check(): NvmlInit.__exit__, and the return or raise of check()
NvmlInitExit(s) ==
  /\ pc[s] = "shutdown"
  /\ shutdowns' = IF ShutsDown(exc[s]) THEN shutdowns + 1 ELSE shutdowns
  /\ result' = [result EXCEPT ![s] = CheckOutcome(exc[s])]
  /\ pc' = [pc EXCEPT ![s] = "done"]
  /\ UNCHANGED <<envVars, known_tags, lock, thread, previously_printed_errors, inits,
                 infoNoSocket, infoMonitoring, warnings, checks,
                 i, device_id, tags, exc, emitted, pollerVars, historyVars>>

\* The caller has the outcome; the frame of the invocation is gone
CheckReturn(s) ==
  /\ pc[s] = "done"
  /\ pc' = [pc EXCEPT ![s] = "idle"]
  /\ i' = [i EXCEPT ![s] = 0]
  /\ device_id' = [device_id EXCEPT ![s] = NoId]
  /\ tags' = [tags EXCEPT ![s] = <<>>]
  /\ exc' = [exc EXCEPT ![s] = "none"]
  /\ emitted' = [emitted EXCEPT ![s] = {}]
  /\ result' = [result EXCEPT ![s] = "none"]
  /\ gtSeen' = [gtSeen EXCEPT ![s] = {}]
  /\ probeExc' = [probeExc EXCEPT ![s] = "none"]
  /\ lookedUp' = [lookedUp EXCEPT ![s] = <<>>]
  /\ UNCHANGED <<envVars, sharedVars, pollerVars, failedKinds, published>>

\* The kubelet creates or removes its socket
KubeletSocket ==
  /\ framework # "direct"
  /\ socketExists' = ~socketExists
  /\ UNCHANGED <<framework, nvmlFault, deviceCount, service, sharedVars, samplerVars,
                 pollerVars, historyVars>>

(* ------------------ discover_instances: the daemon thread --------------- *)

\* refresh_tags() raised: its frame is gone and the error is on its way to
\* the except clause of discover_instances
RefreshRaised(p) ==
  /\ ppc' = [ppc EXCEPT ![p] = "failed"]
  /\ response' = [response EXCEPT ![p] = SnapEmpty]
  /\ todo' = [todo EXCEPT ![p] = <<>>]
  /\ new_tags' = [new_tags EXCEPT ![p] = EmptyDict]

\* Where refresh_tags goes on with as left to assign
AfterAssign(as) == IF as = <<>> THEN "swap" ELSE "build"

\* Variant: the loop goes on after the except and finally clauses
CycleStartsAgain(p) == ppc[p] \in {"refresh", "stopped"}

\* discover_instances(): the loop is about to call refresh_tags()
CycleStarts(p) == ppc[p] = "refresh"

\* refresh_tags(): grpc.insecure_channel(...) and the stub
RefreshChannel(p) ==
  /\ CycleStarts(p)
  /\ \E ok \in BOOLEAN :
       IF ok
         THEN /\ ppc' = [ppc EXCEPT ![p] = "list"]
              /\ UNCHANGED <<response, todo, new_tags>>
         ELSE RefreshRaised(p)
  /\ UNCHANGED <<envVars, sharedVars, samplerVars, pollerLog, historyVars>>

\* Variant: the cycle empties self.known_tags when it starts to build
RefreshListClears(p) ==
  /\ ppc[p] = "list"
  /\ \E ok \in BOOLEAN, resp \in service :
       IF ok
         THEN /\ response' = [response EXCEPT ![p] = resp]
              /\ todo' = [todo EXCEPT ![p] = Assignments(resp)]
              /\ new_tags' = [new_tags EXCEPT ![p] = EmptyDict]
              /\ known_tags' = EmptyDict
              /\ ppc' = [ppc EXCEPT ![p] = AfterAssign(Assignments(resp))]
         ELSE RefreshRaised(p) /\ UNCHANGED known_tags
  /\ UNCHANGED <<envVars, lock, thread, previously_printed_errors, inits, shutdowns,
                 infoNoSocket, infoMonitoring, warnings, checks,
                 samplerVars, pollerLog, historyVars>>

\* Variant: new_tags starts as a copy of self.known_tags
RefreshListPatches(p) ==
  /\ ppc[p] = "list"
  /\ \E ok \in BOOLEAN, resp \in service :
       IF ok
         THEN /\ response' = [response EXCEPT ![p] = resp]
              /\ todo' = [todo EXCEPT ![p] = Assignments(resp)]
              /\ new_tags' = [new_tags EXCEPT ![p] = known_tags]
              /\ ppc' = [ppc EXCEPT ![p] = AfterAssign(Assignments(resp))]
         ELSE RefreshRaised(p)
  /\ UNCHANGED <<envVars, sharedVars, samplerVars, pollerLog, historyVars>>

\* refresh_tags(): response = stub.List(...); new_tags = {}
RefreshList(p) ==
  /\ ppc[p] = "list"
  /\ \E ok \in BOOLEAN, resp \in service :
       IF ok
         THEN /\ response' = [response EXCEPT ![p] = resp]
              /\ todo' = [todo EXCEPT ![p] = Assignments(resp)]
              /\ new_tags' = [new_tags EXCEPT ![p] = EmptyDict]
              /\ ppc' = [ppc EXCEPT ![p] = AfterAssign(Assignments(resp))]
         ELSE RefreshRaised(p)
  /\ UNCHANGED <<envVars, sharedVars, samplerVars, pollerLog, historyVars>>

\* Variant: the loops assign into self.known_tags itself, outside the lock
RefreshBuildInPlace(p) ==
  /\ ppc[p] = "build"
  /\ \E ok \in BOOLEAN :
       IF ok
         THEN /\ known_tags' = DictPut(known_tags, Head(todo[p]).device_id, Head(todo[p]).tags)
              /\ new_tags' = [new_tags EXCEPT ![p] =
                               DictPut(@, Head(todo[p]).device_id, Head(todo[p]).tags)]
              /\ todo' = [todo EXCEPT ![p] = Tail(@)]
              /\ ppc' = [ppc EXCEPT ![p] = AfterAssign(Tail(todo[p]))]
              /\ UNCHANGED response
         ELSE RefreshRaised(p) /\ UNCHANGED known_tags
  /\ UNCHANGED <<envVars, lock, thread, previously_printed_errors, inits, shutdowns,
                 infoNoSocket, infoMonitoring, warnings, checks,
                 samplerVars, pollerLog, historyVars>>

\* refresh_tags(): one new_tags[device_id] = [...] of the loops, or an error
\* raised while walking the response
RefreshBuild(p) ==
  /\ ppc[p] = "build"
  /\ \E ok \in BOOLEAN :
       IF ok
         THEN /\ new_tags' = [new_tags EXCEPT ![p] =
                               DictPut(@, Head(todo[p]).device_id, Head(todo[p]).tags)]
              /\ todo' = [todo EXCEPT ![p] = Tail(@)]
              /\ ppc' = [ppc EXCEPT ![p] = AfterAssign(Tail(todo[p]))]
              /\ UNCHANGED response
         ELSE RefreshRaised(p)
  /\ UNCHANGED <<envVars, sharedVars, samplerVars, pollerLog, historyVars>>

\* refresh_tags(): with self.lock, entry
RefreshAcquire(p) ==
  /\ ppc[p] = "swap"
  /\ lock = NoOne
  /\ lock' = ThreadId(p)
  /\ ppc' = [ppc EXCEPT ![p] = "publish"]
  /\ UNCHANGED <<envVars, known_tags, thread, previously_printed_errors, inits, shutdowns,
                 infoNoSocket, infoMonitoring, warnings, checks,
                 samplerVars, response, todo, new_tags, pollerLog, historyVars>>

\* A swap that leaves the with block without releasing the lock
RefreshPublishKeepsLock(p) ==
  /\ ppc[p] = "publish"
  /\ known_tags' = new_tags[p]
  /\ ppc' = [ppc EXCEPT ![p] = "sleep"]
  /\ todo' = [todo EXCEPT ![p] = <<>>]
  /\ new_tags' = [new_tags EXCEPT ![p] = EmptyDict]
  /\ published' = new_tags[p]
  /\ gtSeen' = [s \in Samplers |->
                  IF pc[s] \in {"get_tags", "lookup"} THEN gtSeen[s] \cup {new_tags[p]}
                  ELSE gtSeen[s]]
  /\ UNCHANGED <<envVars, lock, thread, previously_printed_errors, inits, shutdowns,
                 infoNoSocket, infoMonitoring, warnings, checks,
                 samplerVars, response, pollerLog, failedKinds, probeExc, lookedUp>>

\* refresh_tags(): self.known_tags = new_tags, the release of the lock, and
\* the return to discover_instances
RefreshPublish(p) ==
  /\ ppc[p] = "publish"
  /\ known_tags' = new_tags[p]
  /\ lock' = NoOne
  /\ ppc' = [ppc EXCEPT ![p] = "sleep"]
  /\ todo' = [todo EXCEPT ![p] = <<>>]
  /\ new_tags' = [new_tags EXCEPT ![p] = EmptyDict]
  /\ published' = new_tags[p]
  /\ gtSeen' = [s \in Samplers |->
                  IF pc[s] \in {"get_tags", "lookup"} THEN gtSeen[s] \cup {new_tags[p]}
                  ELSE gtSeen[s]]
  /\ UNCHANGED <<envVars, thread, previously_printed_errors, inits, shutdowns,
                 infoNoSocket, infoMonitoring, warnings, checks,
                 samplerVars, response, pollerLog, failedKinds, probeExc, lookedUp>>

\* Variant: discover_instances returns after its first refresh_tags()
DiscoverSleepReturns(p) ==
  /\ ppc[p] = "sleep"
  /\ ppc' = [ppc EXCEPT ![p] = "returned"]
  /\ response' = [response EXCEPT ![p] = SnapEmpty]
  /\ UNCHANGED <<envVars, sharedVars, samplerVars, todo, new_tags, pollerLog, historyVars>>

\* discover_instances(): time.sleep(interval), then the next iteration
DiscoverSleep(p) ==
  /\ ppc[p] = "sleep"
  /\ ppc' = [ppc EXCEPT ![p] = "refresh"]
  /\ response' = [response EXCEPT ![p] = SnapEmpty]
  /\ UNCHANGED <<envVars, sharedVars, samplerVars, todo, new_tags, pollerLog, historyVars>>

\* Where discover_instances is once its except and finally clauses have run
AfterFailure == "stopped"

\* discover_instances(): except Exception: log.error(ex); finally:
\* log.warning(...); the thread ends
DiscoverFailed(p) ==
  /\ ppc[p] = "failed"
  /\ pollerLog' = [pollerLog EXCEPT ![p] = @ \o << "error", "warning" >>]
  /\ ppc' = [ppc EXCEPT ![p] = AfterFailure]
  /\ UNCHANGED <<envVars, sharedVars, samplerVars, response, todo, new_tags, historyVars>>

(* --------------------------- specifications ----------------------------- *)

Next ==
  \/ \E s \in Samplers : CheckBegin(s)
  \/ \E s \in Samplers : StartDiscovery(s)
  \/ \E s \in Samplers : StartThread(s)
  \/ \E s \in Samplers : NvmlInitEnter(s)
  \/ \E s \in Samplers : GatherBegin(s)
  \/ \E s \in Samplers : GatherDevice(s)
  \/ \E s \in Samplers : GetTagsAcquire(s)
  \/ \E s \in Samplers : GetTagsLookup(s)
  \/ \E s \in Samplers : GatherGpu(s)
  \/ \E s \in Samplers : GatherExit(s)
  \/ \E s \in Samplers : NvmlInitExit(s)
  \/ \E s \in Samplers : CheckReturn(s)
  \/ \E p \in Threads : RefreshChannel(p)
  \/ \E p \in Threads : RefreshList(p)
  \/ \E p \in Threads : RefreshBuild(p)
  \/ \E p \in Threads : RefreshAcquire(p)
  \/ \E p \in Threads : RefreshPublish(p)
  \/ \E p \in Threads : DiscoverSleep(p)
  \/ \E p \in Threads : DiscoverFailed(p)
  \/ KubeletSocket

\* One collector, checks run one after the other, beside the daemon thread
Spec == Init /\ [][Next]_vars

\* The same with hosts on which functions of the binding fail
SpecFaults == InitFaults /\ [][Next]_vars

\* check() entered from several caller contexts at once, on a healthy host
\* with one device, assigned to one pod
InitConcurrent ==
  /\ framework = "concurrent"
  /\ nvmlFault = NoFaults
  /\ deviceCount = 1
  /\ socketExists \in BOOLEAN
  /\ service = {SnapOne}
  /\ InitProgram(EmptyDict)

SpecConcurrent == InitConcurrent /\ [][Next]_vars

(* ------------------- the thread under fair scheduling -------------------- *)

\* Pods come and go: from now on the kubelet answers List with another snapshot
ServiceChange ==
  /\ service' \in {{r} : r \in ListResponses} \ {service}
  /\ UNCHANGED <<framework, nvmlFault, deviceCount, socketExists, sharedVars, samplerVars,
                 pollerVars, historyVars>>

\* A healthy host with one device, on a node whose assignments change
InitLive ==
  /\ framework = "serial"
  /\ nvmlFault = NoFaults
  /\ deviceCount = 1
  /\ socketExists \in BOOLEAN
  /\ service \in {{r} : r \in ListResponses}
  /\ InitProgram(EmptyDict)

NextLive == Next \/ ServiceChange

\* A step of discover_instances that needs nothing but the processor
PollerStep(p) ==
  \/ RefreshChannel(p)
  \/ RefreshList(p)
  \/ RefreshBuild(p)
  \/ RefreshPublish(p)
  \/ DiscoverSleep(p)
  \/ DiscoverFailed(p)

\* The daemon thread is scheduled again and again: a step of discover_instances
\* that stays possible is taken, and the lock, which callers of get_tags hold
\* only for a lookup, is obtained by a thread that keeps waiting for it
PollerFairness ==
  \A p \in Threads : WF_vars(PollerStep(p)) /\ SF_vars(RefreshAcquire(p))

\* A caller inside get_tags is scheduled too: it obtains the lock if it keeps
\* waiting for it, and the lookup it makes while holding the lock ends
CallerFairness ==
  \A s \in Samplers :
    /\ SF_vars(GetTagsAcquire(s))
    /\ WF_vars(GetTagsLookup(s))

SpecLive == InitLive /\ [][NextLive]_vars /\ PollerFairness /\ CallerFairness

\* The identity of the first device in both encodings
LockIds == {Bytes(UuidName(0)), Str(UuidName(0))}

\* check() run serially on a healthy host with one device, beside the thread
\* and beside another caller of get_tags, who passes bytes or a string
InitLock ==
  /\ framework = "mixed"
  /\ nvmlFault = NoFaults
  /\ deviceCount = 1
  /\ socketExists \in BOOLEAN
  /\ service = {SnapOne}
  /\ InitProgram(EmptyDict)

NextLock == Next \/ \E s \in Samplers, id \in LockIds : DirectGetTags(s, id)

SpecLock == InitLock /\ [][NextLock]_vars /\ PollerFairness /\ CallerFairness

(* ------------------- get_tags called on its own -------------------------- *)

\* Mappings keyed by the string form of device identities
StringMappings ==
  UNION {[ks -> {Assignments(SnapOne)[1].tags, Assignments(SnapTwo)[2].tags}] :
           ks \in SUBSET {Str(UuidName(d)) : d \in 0..(MaxDevices - 1)}}

\* Identities a caller may ask about, in both encodings
LookupIds ==
  {Bytes(UuidName(d)) : d \in 0..MaxDevices} \cup {Str(UuidName(d)) : d \in 0..MaxDevices}

InitLookup ==
  /\ framework = "direct"
  /\ nvmlFault = NoFaults
  /\ deviceCount = 0
  /\ socketExists = FALSE
  /\ service = {}
  /\ \E m \in StringMappings : InitProgram(m)

NextLookup ==
  \/ \E s \in Samplers, id \in LookupIds : DirectGetTags(s, id)
  \/ \E s \in Samplers : GetTagsAcquire(s)
  \/ \E s \in Samplers : GetTagsLookup(s)
  \/ \E s \in Samplers : CheckReturn(s)

\* get_tags as a function of the mapping and of the identity passed
SpecLookup == InitLookup /\ [][NextLookup]_vars

(* ------------------------------ properties ------------------------------ *)

Started == {p \in Threads : ppc[p] # "unstarted"}

\* No check() invocation is under way
Quiescent == \A s \in Samplers : pc[s] \in {"idle", "done"}

\* The gpu:<i> tag
GpuTag(d) == Label("gpu", IndexStr(d))

\* Names of the samples of an invocation that are tagged for device d
NamesFor(s, d) == {e.name : e \in {x \in emitted[s] : x.tags # <<>> /\ x.tags[1] = GpuTag(d)}}

\* Names of the metrics of the blocks of gather_gpu other than block k
NamesBut(k) == UNION {{m.name : m \in Probes[j].metrics} : j \in (1..Len(Probes)) \ {k}}

\* The host's only fault: the query of block k raises NVMLError
OnlyFault(k) ==
  \A c \in NvmlCalls : nvmlFault[c] = (IF c = Probes[k].call THEN "NVMLError" ELSE "ok")

\* The functions of the binding called directly inside the block of a probe-kind
CallsIn(kind) ==
  IF kind = "device_count"
    THEN {"nvmlDeviceGetCount", "nvmlDeviceGetHandleByIndex", "nvmlDeviceGetUUID"}
    ELSE {Probes[k].call : k \in {j \in 1..Len(Probes) : Probes[j].name = kind}}

\* C1 Idempotent start: however many check() invocations run on one collector,
\* and however their steps interleave, at most one thread ever runs
\* discover_instances.
C1_StartedAtMostOnce == Cardinality(Started) <= 1

\* C2 Atomic mapping swap: the label list a get_tags call returns for its key
\* is the entry of one complete mapping that was current during the call: the
\* one current when the call began or one installed by a swap during it;
\* never an entry of a mapping under construction.
C2_AtomicSwap ==
  \A s \in Samplers :
    pc[s] = "gather_gpu" =>
      Tail(tags[s]) \in {DictGet(m, Decode(device_id[s]), <<>>) : m \in gtSeen[s]}

\* C2 witness: a lookup that overlapped a swap has returned labels
C2_Witness ==
  \E s \in Samplers :
    pc[s] = "gather_gpu" /\ Cardinality(gtSeen[s]) >= 2 /\ Len(tags[s]) > 1

\* C3 Suppression dedup: once the invocations under way are over, every
\* probe-kind whose query has raised NVMLError has exactly one warning logged,
\* however many times it has failed.
C3_OneWarningPerKind ==
  Quiescent => \A k \in failedKinds : warnings[k] = 1

\* C4 Failure isolation: on a host whose only fault is that the query of one
\* block of gather_gpu raises NVMLError, every check() invocation returns
\* normally, with the device_count gauge and, for every device, every metric
\* of the other blocks and none of the failing one.
C4_FailureIsolation ==
  \A s \in Samplers, k \in 1..Len(Probes) :
    (pc[s] = "done" /\ OnlyFault(k)) =>
      /\ result[s] = "ok"
      /\ \E e \in emitted[s] : e.name = "device_count"
      /\ \A d \in 0..(deviceCount - 1) : NamesFor(s, d) = NamesBut(k)

C6_KeyEncodingEquivalence ==
  \A s \in Samplers :
    pc[s] = "done" =>
      /\ result[s] = "ok"
      /\ tags[s] = DictGet(known_tags, Str(device_id[s].id), <<>>)

\* C7 Stale-on-failure: when a cycle of the thread has raised, at whatever
\* step, known_tags is the mapping installed by the last completed swap (the
\* initial empty mapping if there was none).
C7_StaleOnFailure ==
  \A p \in Threads : ppc[p] \in {"failed", "stopped"} => known_tags = published

\* C7 witness: the thread has stopped after an earlier cycle installed labels,
\* and a later lookup has returned them
C7_Witness ==
  /\ ppc[1] = "stopped"
  /\ published # EmptyDict
  /\ \E s \in Samplers : pc[s] = "gather_gpu" /\ Len(tags[s]) > 1 /\ gtSeen[s] = {published}

\* C8 Poller failure is terminal: the thread reaches its end with exactly the
\* error line followed by the warning line logged, and from then on it takes
\* no step, no thread is started, self._thread and known_tags stay as they are.
C8_PollerFailureTerminal ==
  [][\A p \in Threads :
       /\ ppc'[p] = "stopped" => pollerLog'[p] = << "error", "warning" >>
       /\ ppc'[p] # "stopped" => pollerLog'[p] = <<>>
       /\ ppc[p] = "stopped" =>
            /\ ppc' = ppc
            /\ pollerLog' = pollerLog
            /\ thread' = thread
            /\ known_tags' = known_tags]_vars

\* C8 witness: a check() begun and finished normally after the thread stopped
C8_Witness ==
  /\ ppc[1] = "stopped"
  /\ \E s \in Samplers :
       pc[s] = "done" /\ result[s] = "ok" /\ checks = 2 /\ NamesFor(s, 0) # {}

\* C9 Scoped binding lifetime: from the successful nvmlInit of an invocation
\* to its nvmlShutdown the binding is initialized, and outside of that every
\* successful nvmlInit has had its one nvmlShutdown.
C9_ScopedBinding ==
  /\ \A s \in Samplers :
       pc[s] \in {"gather", "device", "get_tags", "lookup", "gather_gpu", "exit", "shutdown"}
         => inits = shutdowns + 1
  /\ (\A s \in Samplers : pc[s] \in {"idle", "start_discovery", "start_thread", "init", "done"})
       => inits = shutdowns

\* C9 witness: the second invocation raised out of gathering and the binding
\* has been shut down for both
C9_Witness ==
  \E s \in Samplers :
    pc[s] = "done" /\ result[s] \in {"AttributeError", "RuntimeError"}
      /\ inits = 2 /\ shutdowns = 2

\* C10 No repeating info log: as long as no thread has been started, the
\* passes made so far have logged one "No kubelet socket" line in all.
C10_OneInfoLine ==
  (Started = {} /\ Quiescent /\ checks >= 1) => infoNoSocket = 1

\* C11 Missing endpoint means never started: once a pass has found the socket
\* path missing when it attempted to start discovery, no thread is started,
\* by that pass or by any later one, whether or not the path appears later.
C11_NeverStartedAfterMissing ==
  infoNoSocket >= 1 => Started = {}

\* C12 Lock never held across I/O: the thread holds the lock only between its
\* acquisition for the swap and the swap itself, never while it opens the
\* channel, waits for the list, builds the mapping or sleeps; a caller of
\* get_tags holds it only for the lookup in known_tags.
C12_LockOnlyAroundMemory ==
  /\ \A p \in Threads :
       /\ lock = ThreadId(p) => ppc[p] = "publish"
       /\ ppc[p] \in {"refresh", "list", "build", "swap", "sleep", "failed", "stopped"}
            => lock # ThreadId(p)
  /\ \A s \in Samplers : lock = SamplerId(s) => pc[s] = "lookup"

\* C12 witness: the thread holds the lock for its swap while a check() waits
\* to enter get_tags
C12_Witness ==
  /\ lock = ThreadId(1)
  /\ ppc[1] = "publish"
  /\ \E s \in Samplers : pc[s] = "get_tags"

\* The metrics gather_gpu submits for one device on a healthy host
DeviceMetrics == UNION {Probes[k].metrics : k \in 1..Len(Probes)}

\* C13 Label composition: a check() that returns on a healthy host has
\* submitted device_count as one sample, with the count as value and no tags,
\* and for every device d below the count every per-device metric with the
\* tags [gpu:d] followed by the list stored for d's UUID in the mapping that
\* the get_tags call for d read (nothing when the mapping has no entry); and
\* no other sample.
C13_LabelComposition ==
  \A s \in Samplers :
    (pc[s] = "done" /\ result[s] = "ok" /\ nvmlFault = NoFaults) =>
      /\ Len(lookedUp[s]) = deviceCount
      /\ emitted[s] =
           {Sample(Metric("device_count", "gauge"), deviceCount, <<>>)} \cup
           {Sample(m, d, <<GpuTag(d)>> \o DictGet(lookedUp[s][d + 1], Str(UuidName(d)), <<>>)) :
              m \in DeviceMetrics, d \in 0..(deviceCount - 1)}

\* C13 witness: a pass over two devices, the first assigned to a pod and the
\* second to none
C13_Witness ==
  \E s \in Samplers :
    /\ pc[s] = "done" /\ result[s] = "ok" /\ deviceCount = 2
    /\ \E e \in emitted[s] : e.value = 0 /\ Len(e.tags) = 4 /\ e.tags[1] = GpuTag(0)
    /\ \E e \in emitted[s] : e.value = 1 /\ e.tags = <<GpuTag(1)>>

\* The containers of a snapshot, by position, that list identity u under a
\* device entry of the GPU resource class
GpuHolders(resp, u) ==
  {h \in UNION {{<<pi, ci>> : ci \in 1..Len(resp.pod_resources[pi].containers)} :
                  pi \in 1..Len(resp.pod_resources)} :
     \E dev \in {resp.pod_resources[h[1]].containers[h[2]].devices[k] :
                    k \in 1..Len(resp.pod_resources[h[1]].containers[h[2]].devices)} :
       /\ dev.resource_name = GpuResource
       /\ \E j \in 1..Len(dev.device_ids) : dev.device_ids[j] = u}

\* The last of a set of containers in snapshot order
LastHolder(H) ==
  CHOOSE h \in H : \A g \in H : g[1] < h[1] \/ (g[1] = h[1] /\ g[2] <= h[2])

\* The three labels of the container at position h of a snapshot
HolderLabels(resp, h) ==
  << Label("pod_name", resp.pod_resources[h[1]].name),
     Label("kube_namespace", resp.pod_resources[h[1]].namespace),
     Label("kube_container_name", resp.pod_resources[h[1]].containers[h[2]].name) >>

\* C14 Wholesale replacement: when a cycle of the thread has completed its
\* swap, known_tags is exactly the mapping built from the snapshot of that
\* cycle, and get_tags returns no labels for an identity that the snapshot
\* does not assign, whatever known_tags held before.
C14_WholesaleReplacement ==
  \A p \in Threads :
    ppc[p] = "sleep" =>
      /\ known_tags = BuildTags(response[p])
      /\ \A u \in UuidNames :
           GpuHolders(response[p], u) = {} =>
             GetTagsValue(known_tags, known_tags, Bytes(u)).value = <<>>

\* C14 witness: a cycle has installed the mapping of an empty snapshot while
\* a pass still carries labels it read from the mapping before it
C14_Witness ==
  /\ ppc[1] = "sleep" /\ response[1] = SnapEmpty /\ known_tags = EmptyDict
  /\ \E s \in Samplers : pc[s] = "gather_gpu" /\ Len(tags[s]) > 1

\* C15 Mapping construction: the mapping a cycle has built, and then
\* installs, has as keys exactly the identities that the snapshot lists
\* under devices of class nvidia.com/gpu, and maps each to the pod_name,
\* kube_namespace and kube_container_name labels of the last container, in
\* snapshot order, that lists it.
C15_MappingConstruction ==
  \A p \in Threads :
    LET built == IF ppc[p] = "sleep" THEN known_tags ELSE new_tags[p]
    IN ppc[p] \in {"swap", "publish", "sleep"} =>
         /\ DOMAIN built = {Str(u) : u \in {v \in UuidNames : GpuHolders(response[p], v) # {}}}
         /\ \A u \in UuidNames :
              GpuHolders(response[p], u) # {} =>
                built[Str(u)] = HolderLabels(response[p], LastHolder(GpuHolders(response[p], u)))

\* C15 witness: a mapping built from a snapshot in which two containers hold
\* one identity and another identity is listed under another class only
C15_Witness ==
  /\ ppc[1] = "publish" /\ response[1] = SnapTwo
  /\ new_tags[1][Str("a")][1] = Label("pod_name", "p2")
  /\ Str("c") \notin DOMAIN new_tags[1]

\* C16 ProbeFailureRecord: once the invocations under way are over,
\* previously_printed_errors holds exactly the probe-kinds for which a
\* warning has been logged.
C16_RecordMatchesWarnings ==
  Quiescent => previously_printed_errors = {k \in ProbeKinds : warnings[k] > 0}

\* C19 Scope of the device_count block: on a host whose only fault is that
\* the count query, or the handle or UUID query of a device, raises
\* NVMLError, every check() invocation returns normally; it has submitted
\* nothing when the count query failed, and the device_count gauge alone when
\* the handle or UUID query of the first device failed.
C19_DeviceCountScope ==
  \A s \in Samplers, c \in CallsIn("device_count") :
    (pc[s] = "done" /\ deviceCount > 0
       /\ \A d \in NvmlCalls : nvmlFault[d] = (IF d = c THEN "NVMLError" ELSE "ok")) =>
      /\ result[s] = "ok"
      /\ emitted[s] = IF c = "nvmlDeviceGetCount" THEN {}
                      ELSE {Sample(Metric("device_count", "gauge"), deviceCount, <<>>)}

\* C17 Published mappings are immutable: the only step that changes
\* known_tags is the swap of refresh_tags, which makes it the mapping that
\* cycle built; no other step of the thread or of a check(), the building of
\* a device's tag list from the list get_tags returned included, changes its
\* keys or the lists stored in it.
C17_PublishedImmutable ==
  [][known_tags' # known_tags =>
       \E p \in Threads :
         ppc[p] = "publish" /\ ppc'[p] = "sleep" /\ known_tags' = new_tags[p]]_vars

\* C17 witness: a pass has built a device's tags from the list stored in the
\* installed mapping, and the mapping still holds that list
C17_Witness ==
  \E s \in Samplers :
    /\ pc[s] = "gather_gpu" /\ Len(tags[s]) = 4
    /\ known_tags = published
    /\ Decode(device_id[s]) \in DOMAIN known_tags
    /\ known_tags[Decode(device_id[s])] = Tail(tags[s])

\* No cycle of a thread has raised
NoCycleRaised == \A p \in Threads : ppc[p] \notin {"failed", "stopped"}

\* C18 Eventual consistency: under fair scheduling of the thread, if from
\* some point on the kubelet answers every List with the same snapshot and no
\* cycle has raised (a thread that has failed stays failed, so none ever
\* raises), then from some point on either no thread was started or
\* known_tags, which every get_tags reads, is the mapping built from that
\* snapshot, whatever check() invocations run meanwhile.
C18_EventualConsistency ==
  \A r \in ListResponses :
    <>[](service = {r} /\ NoCycleRaised)
      => <>[](Started = {} \/ known_tags = BuildTags(r))

\* C18 witness: the kubelet went from a snapshot with assignments to the empty
\* one, a later cycle installed the empty mapping, and a pass then read it
C18_Witness ==
  /\ service = {SnapEmpty} /\ known_tags = EmptyDict /\ ppc[1] = "sleep"
  /\ infoMonitoring = 1
  /\ \E s \in Samplers :
       /\ pc[s] = "gather_gpu" /\ tags[s] = <<GpuTag(0)>>
       /\ checks = 2 /\ lookedUp[s] = <<EmptyDict>>

\* C20 Lock release and deadlock freedom: the lock is free whenever no caller
\* is at the lookup of get_tags and no thread is at its swap, in particular
\* when a lookup has ended by raising; and under fair scheduling a caller that
\* waits to enter get_tags gets through it, and a thread that waits for the
\* lock completes its swap.
C20_LockReleased ==
  /\ []((\A s \in Samplers : pc[s] # "lookup") /\ (\A p \in Threads : ppc[p] # "publish")
          => lock = NoOne)
  /\ \A s \in Samplers : (pc[s] = "get_tags") ~> (pc[s] \notin {"get_tags", "lookup"})
  /\ \A p \in Threads : (ppc[p] = "swap") ~> (ppc[p] = "sleep")

\* C20 witness: a get_tags call has ended with AttributeError, raised inside
\* the locked region, and the thread has since obtained the lock for its swap
\* while a check() waits to enter get_tags
C20_Witness ==
  /\ pc[2] = "done" /\ result[2] = "AttributeError"
  /\ lock = ThreadId(1) /\ ppc[1] = "publish"
  /\ pc[1] = "get_tags"

====
